---- MODULE Spec2Model ----
(***************************************************************************)
(* Model of the quiz session of u-lang-native (src/src/main.rs): the App   *)
(* struct, App::init / App::correct / App::next, and App::update, the      *)
(* message handler of the iced application.                                *)
(*                                                                         *)
(* Strings are sequences of tokens (a word or the blank " "), so that      *)
(* trimming is computed.  Scores are f32 in the program; the model holds   *)
(* them as an integer number of halves (0, 1, 2 for 0.0, 0.5, 1.0), sums   *)
(* of which are exact in f32.  Option<T> is a sequence of length 0 or 1.   *)
(* The presentation fields (debug_layout, dark_theme, font_size, spacing)  *)
(* and their four messages touch no session field and are left out.        *)
(***************************************************************************)
EXTENDS Integers, Sequences, FiniteSets, TLC

\* ---------------------------------------------------------------- bounds
\* number of entries of the built-in deck that the model keeps
DefaultLen == 2
\* longest deck a successful load delivers
MaxDeckLen == 2
\* most submissions graded between two (re)initializations
MaxSubmits == 2
\* how far past the end of the deck the cursor may be pushed
MaxOverrun == 1
\* most file loads in flight at once
MaxPending == 1

\* ---------------------------------------------------------------- values
None == <<>>
Some(x) == <<x>>

Adverb == "Adverb"
Noun == "Noun"
Verb == "Verb"

Entry(a, b, c) == <<a, b, c>>

WaitUserAnswer == "WaitUserAnswer"
Correcting == "Correcting"
End == "End"
State == {Correcting, WaitUserAnswer, End}

IoError == "IoError"
DialogClosed == "DialogClosed"
ParseError == "ParseError"
Error == {IoError, DialogClosed, ParseError}

\* the vec! of App::default, in source order
default_entries ==
  << Entry(<<"yes">>, <<"oui">>, Adverb),
     Entry(<<"no">>, <<"non">>, Adverb),
     Entry(<<"the", " ", "work">>, <<"le", " ", "travail">>, Noun),
     Entry(<<"the", " ", "rust">>, <<"la", " ", "rouille">>, Noun),
     Entry(<<"the", " ", "solution">>, <<"la", " ", "solution">>, Noun),
     Entry(<<"to", " ", "rise">>, <<"s'", "élever">>, Verb) >>

\* the part of it the model keeps
default_content == SubSeq(default_entries, 1, DefaultLen)

default_langs == <<"English", "French">>

\* ---------------------------------------------------------------- inputs
\* values the text field can deliver
Answers == { <<>>, <<" ", "yes">>, <<"work">> }

\* the entries of two deck files; a load delivers the first n of one of them
deck_files ==
  { << Entry(<<"yes">>, <<"ja">>, Adverb),
       Entry(<<"the", " ", "work">>, <<"die", " ", "Arbeit">>, Noun),
       Entry(<<"yes">>, <<"ja">>, Adverb) >>,
    << Entry(<<"the", " ", "work">>, <<"die", " ", "Arbeit">>, Noun),
       Entry(<<"the", " ", "work">>, <<"die", " ", "Arbeit">>, Noun),
       Entry(<<"yes">>, <<"ja">>, Adverb) >> }

\* parse of the grammar crate on a well-formed document: (langs, entries);
\* the entries list of a document may be empty (sections 4.1 and 6)
parse_ok ==
  { << <<"English", "German">>, SubSeq(d, 1, n) >> : d \in deck_files, n \in 0..MaxDeckLen }

\* what pick_file delivers on success: (path, (langs, entries))
Files ==
  { [path |-> "deck.json", langs |-> c[1], entries |-> c[2]] : c \in parse_ok }

\* ---------------------------------------------------------------- state
VARIABLES
  content,      \* Vec<Entry>
  current,      \* Option<usize>
  entry,        \* String, the answer buffer
  error,        \* Option<Error>
  file,         \* Option<PathBuf>
  langs,        \* [Lang; 2]
  state,        \* State
  last_score,   \* f32, in halves
  total_score,  \* (f32, usize)
  pending,      \* pick_file() futures in flight
  panicked,     \* the process has panicked (unwrap of None, index out of bounds)
  last,         \* history: the message handled last
  loaded,       \* history: the deck last handed to the session (built-in or file)
  loads,        \* history: whether a load ever succeeded
  submitted,    \* history: submissions graded since the last (re)initialization
  score_sum     \* history: sum of the last_score values of those submissions

session == <<content, current, entry, state, last_score, total_score>>
vars == <<content, current, entry, error, file, langs, state, last_score,
          total_score, pending, panicked, last, loaded, loads, submitted, score_sum>>

Msg(k, a) == [kind |-> k, arg |-> a]

\* ---------------------------------------------------------------- helpers
\* str::trim on a token string
RECURSIVE TrimStart(_)
TrimStart(s) == IF s # <<>> /\ Head(s) = " " THEN TrimStart(Tail(s)) ELSE s

RECURSIVE TrimEnd(_)
TrimEnd(s) ==
  IF s # <<>> /\ s[Len(s)] = " " THEN TrimEnd(SubSeq(s, 1, Len(s) - 1)) ELSE s

trim(s) == TrimEnd(TrimStart(s))

\* score of an exact answer, in halves
FullScore == 2
\* score of an answer that misses only the article or the infinitive marker
PartialScore == 1

\* Entry::correct of the grammar crate (section 4.2 of the specification)
Grade(e, answer, slot, lang) ==
  LET expected == e[slot + 1]
  IN IF answer = <<>> THEN 0
     ELSE IF answer = expected THEN FullScore
     ELSE IF e[3] # Adverb /\ Len(expected) > 2
             /\ answer = SubSeq(expected, 3, Len(expected))
          THEN PartialScore
     ELSE 0

\* variant: the slice is left in the order given
shuffle_Identity(s) == { s }

\* SliceRandom::shuffle: every ordering of the slice is a possible outcome
shuffle(s) ==
  { [i \in 1..Len(s) |-> s[f[i]]] : f \in Permutations(1..Len(s)) }

\* ---------------------------------------------------------------- methods
\* variant: the count is taken before the new content is stored
init_StaleCount(c) ==
  /\ entry' = <<>>
  /\ current' = Some(0)
  /\ content' \in shuffle(c)
  /\ total_score' = <<0, Len(content)>>
  /\ last_score' = 0
  /\ state' = WaitUserAnswer
  /\ submitted' = 0
  /\ score_sum' = 0

\* App::init
init(c) ==
  /\ entry' = <<>>
  /\ current' = Some(0)
  /\ content' \in shuffle(c)
  /\ total_score' = <<0, Len(content')>>
  /\ last_score' = 0
  /\ state' = WaitUserAnswer
  /\ submitted' = 0
  /\ score_sum' = 0

\* variant: the grade overwrites the running sum instead of being added to it
correct_Overwrite ==
  IF current = None \/ current[1] >= Len(content)
  THEN /\ panicked' = TRUE
       /\ UNCHANGED <<session, submitted, score_sum>>
  ELSE /\ submitted < MaxSubmits
       /\ last_score' = Grade(content[current[1] + 1], trim(entry), 0, langs[1])
       /\ total_score' = <<last_score', total_score[2]>>
       /\ state' = Correcting
       /\ submitted' = submitted + 1
       /\ score_sum' = score_sum + last_score'
       /\ UNCHANGED <<content, current, entry, panicked>>

\* App::correct
correct ==
  IF current = None \/ current[1] >= Len(content)
  THEN /\ panicked' = TRUE
       /\ UNCHANGED <<session, submitted, score_sum>>
  ELSE /\ submitted < MaxSubmits
       /\ last_score' = Grade(content[current[1] + 1], trim(entry), 0, langs[1])
       /\ total_score' = <<total_score[1] + last_score', total_score[2]>>
       /\ state' = Correcting
       /\ submitted' = submitted + 1
       /\ score_sum' = score_sum + last_score'
       /\ UNCHANGED <<content, current, entry, panicked>>

\* variant: at the last index the state becomes End but the cursor is kept
next_KeepsCursor ==
  /\ entry' = <<>>
  /\ IF current # None
     THEN LET nb == current[1]
          IN IF nb + 1 = Len(content)
             THEN state' = End /\ current' = current
             ELSE /\ nb + 1 <= Len(content) + MaxOverrun
                  /\ state' = WaitUserAnswer
                  /\ current' = Some(nb + 1)
     ELSE UNCHANGED <<state, current>>
  /\ UNCHANGED <<content, last_score, total_score, panicked, submitted, score_sum>>

\* variant: the end of the deck is tested one index too late
next_OffByOne ==
  /\ entry' = <<>>
  /\ IF current # None
     THEN LET nb == current[1]
          IN IF nb = Len(content)
             THEN state' = End /\ current' = None
             ELSE /\ nb + 1 <= Len(content) + MaxOverrun
                  /\ state' = WaitUserAnswer
                  /\ current' = Some(nb + 1)
     ELSE UNCHANGED <<state, current>>
  /\ UNCHANGED <<content, last_score, total_score, panicked, submitted, score_sum>>

\* App::next
next ==
  /\ entry' = <<>>
  /\ IF current # None
     THEN LET nb == current[1]
          IN IF nb + 1 = Len(content)
             THEN state' = End /\ current' = None
             ELSE /\ nb + 1 <= Len(content) + MaxOverrun
                  /\ state' = WaitUserAnswer
                  /\ current' = Some(nb + 1)
     ELSE UNCHANGED <<state, current>>
  /\ UNCHANGED <<content, last_score, total_score, panicked, submitted, score_sum>>

\* ---------------------------------------------------------------- App::default
Init ==
  /\ content \in shuffle(default_content)
  /\ total_score = <<0, Len(default_content)>>
  /\ current = Some(0)
  /\ entry = <<>>
  /\ error = None
  /\ file = None
  /\ langs = default_langs
  /\ state = WaitUserAnswer
  /\ last_score = 0
  /\ pending = 0
  /\ panicked = FALSE
  /\ last = Msg("new", "")
  /\ loaded = [langs |-> default_langs, entries |-> default_content]
  /\ loads = FALSE
  /\ submitted = 0
  /\ score_sum = 0

\* ---------------------------------------------------------------- App::update
\* Message::TextInputChanged(value)
TextInputChanged(value) ==
  /\ ~panicked
  /\ entry' = value
  /\ last' = Msg("TextInputChanged", "")
  /\ UNCHANGED <<content, current, error, file, langs, state, last_score, total_score,
                 pending, panicked, loaded, loads, submitted, score_sum>>

\* Message::OpenFile: Command::perform(pick_file(), Message::FileOpened)
OpenFile ==
  /\ ~panicked
  /\ pending < MaxPending
  /\ pending' = pending + 1
  /\ last' = Msg("OpenFile", "")
  /\ UNCHANGED <<session, error, file, langs, panicked, loaded, loads, submitted, score_sum>>

\* variant: a successful load does not store the path of the file
FileOpenedOk_NoPath(f) ==
  /\ ~panicked
  /\ pending > 0
  /\ pending' = pending - 1
  /\ langs' = f.langs
  /\ init(f.entries)
  /\ error' = None
  /\ last' = Msg("FileOpened", "Ok")
  /\ loaded' = [langs |-> f.langs, entries |-> f.entries]
  /\ loads' = TRUE
  /\ UNCHANGED <<file, panicked>>

\* variant: a successful load leaves a recorded error in place
FileOpenedOk_KeepsError(f) ==
  /\ ~panicked
  /\ pending > 0
  /\ pending' = pending - 1
  /\ langs' = f.langs
  /\ init(f.entries)
  /\ file' = Some(f.path)
  /\ last' = Msg("FileOpened", "Ok")
  /\ loaded' = [langs |-> f.langs, entries |-> f.entries]
  /\ loads' = TRUE
  /\ UNCHANGED <<error, panicked>>

\* Message::FileOpened(Ok((path, content)))
FileOpenedOk(f) ==
  /\ ~panicked
  /\ pending > 0
  /\ pending' = pending - 1
  /\ langs' = f.langs
  /\ init(f.entries)
  /\ file' = Some(f.path)
  /\ error' = None
  /\ last' = Msg("FileOpened", "Ok")
  /\ loaded' = [langs |-> f.langs, entries |-> f.entries]
  /\ loads' = TRUE
  /\ UNCHANGED panicked

\* variant: a load that fails on IoError is attempted again
FileOpenedErr_Retries(err) ==
  /\ ~panicked
  /\ pending > 0
  /\ pending' = IF err = IoError THEN pending ELSE pending - 1
  /\ IF err = DialogClosed THEN UNCHANGED error ELSE error' = Some(err)
  /\ last' = Msg("FileOpened", err)
  /\ UNCHANGED <<session, file, langs, panicked, loaded, loads, submitted, score_sum>>

\* variant: a failed load also forgets the stored path
FileOpenedErr_ClearsFile(err) ==
  /\ ~panicked
  /\ pending > 0
  /\ pending' = pending - 1
  /\ IF err = DialogClosed THEN UNCHANGED <<error, file>> ELSE error' = Some(err) /\ file' = None
  /\ last' = Msg("FileOpened", err)
  /\ UNCHANGED <<session, langs, panicked, loaded, loads, submitted, score_sum>>

\* variant: DialogClosed has no arm of its own and is recorded like the others
FileOpenedErr_RecordsAll(err) ==
  /\ ~panicked
  /\ pending > 0
  /\ pending' = pending - 1
  /\ error' = Some(err)
  /\ last' = Msg("FileOpened", err)
  /\ UNCHANGED <<session, file, langs, panicked, loaded, loads, submitted, score_sum>>

\* Message::FileOpened(Err(err))
FileOpenedErr(err) ==
  /\ ~panicked
  /\ pending > 0
  /\ pending' = pending - 1
  /\ IF err = DialogClosed THEN UNCHANGED error ELSE error' = Some(err)
  /\ last' = Msg("FileOpened", err)
  /\ UNCHANGED <<session, file, langs, panicked, loaded, loads, submitted, score_sum>>

\* variant: Enter in End restarts the session like the main button
Enter_RestartsAtEnd ==
  /\ ~panicked
  /\ CASE state = WaitUserAnswer -> correct
       [] state = Correcting -> next
       [] OTHER -> init(content) /\ UNCHANGED panicked
  /\ last' = Msg("Enter", state)
  /\ UNCHANGED <<error, file, langs, pending, loaded, loads>>

\* Message::Enter
Enter ==
  /\ ~panicked
  /\ CASE state = WaitUserAnswer -> correct
       [] state = Correcting -> next
       [] OTHER -> UNCHANGED <<session, panicked, submitted, score_sum>>
  /\ last' = Msg("Enter", state)
  /\ UNCHANGED <<error, file, langs, pending, loaded, loads>>

\* Message::Correction
Correction ==
  /\ ~panicked
  /\ correct
  /\ last' = Msg("Correction", state)
  /\ UNCHANGED <<error, file, langs, pending, loaded, loads>>

\* Message::Next
NextMsg ==
  /\ ~panicked
  /\ next
  /\ last' = Msg("Next", state)
  /\ UNCHANGED <<error, file, langs, pending, loaded, loads>>

\* variant: restart always takes the built-in deck
Start_AlwaysDefault ==
  /\ ~panicked
  /\ \E d \in shuffle(default_content) : init(d)
  /\ last' = Msg("Start", state)
  /\ UNCHANGED <<error, file, langs, pending, panicked, loaded, loads>>

\* Message::Start
Start ==
  /\ ~panicked
  /\ IF file # None
     THEN init(content)
     ELSE \E d \in shuffle(default_content) : init(d)
  /\ last' = Msg("Start", state)
  /\ UNCHANGED <<error, file, langs, pending, panicked, loaded, loads>>

Next ==
  \/ \E value \in Answers : TextInputChanged(value)
  \/ OpenFile
  \/ \E f \in Files : FileOpenedOk(f)
  \/ \E err \in Error : FileOpenedErr(err)
  \/ Enter
  \/ Correction
  \/ NextMsg
  \/ Start

Spec == Init /\ [][Next]_vars

\* ---------------------------------------------------------------- App::view
\* variant: the arms of Correcting and WaitUserAnswer are exchanged
on_press_Swapped(st) ==
  CASE st = Correcting -> "Correction"
    [] st = WaitUserAnswer -> "Next"
    [] st = End -> "Start"

\* the message of the main button (next_button.on_press)
on_press(st) ==
  CASE st = Correcting -> "Next"
    [] st = WaitUserAnswer -> "Correction"
    [] st = End -> "Start"

\* the message the answer field submits; the field is shown in WaitUserAnswer only
on_submit(st) == IF st = WaitUserAnswer THEN Some("Correction") ELSE None

Offered(m) == on_press(state) = m \/ on_submit(state) = Some(m)

\* the messages of the widgets, handled in the state whose view emitted them
ViewTextInputChanged(value) == state = WaitUserAnswer /\ TextInputChanged(value)
ViewCorrection == Offered("Correction") /\ Correction
ViewNext == Offered("Next") /\ NextMsg
ViewStart == Offered("Start") /\ Start

NextView ==
  \/ \E value \in Answers : ViewTextInputChanged(value)
  \/ OpenFile
  \/ \E f \in Files : FileOpenedOk(f)
  \/ \E err \in Error : FileOpenedErr(err)
  \/ Enter
  \/ ViewCorrection
  \/ ViewNext
  \/ ViewStart

SpecView == Init /\ [][NextView]_vars

TypeOK ==
  /\ state \in State
  /\ Len(current) <= 1
  /\ Len(error) <= 1
  /\ Len(file) <= 1
  /\ pending \in 0..MaxPending
  /\ panicked \in BOOLEAN

\* ---------------------------------------------------------------- properties
\* s and t hold the same entries, each as many times
IsPerm(s, t) ==
  /\ Len(s) = Len(t)
  /\ \A x \in {s[i] : i \in 1..Len(s)} \cup {t[i] : i \in 1..Len(t)} :
       Cardinality({i \in 1..Len(s) : s[i] = x}) = Cardinality({i \in 1..Len(t) : t[i] = x})

\* every ordering of s, computed without shuffle
Range(s) == { s[i] : i \in 1..Len(s) }
Orderings(s) == { q \in [1..Len(s) -> Range(s)] : IsPerm(q, s) }

Handled(k) == last'.kind = k
Reinitialized == Handled("Start") \/ (Handled("FileOpened") /\ last'.arg = "Ok")

\* C1: handling Message::Correction while the session is Correcting or End
\* leaves state, cursor, last_score, running total and deck unchanged and
\* does not fail.
C1_SubmitOutsideAwaitingIsNoOp ==
  [][ (Handled("Correction") /\ state \in {Correcting, End})
        => (UNCHANGED <<state, current, last_score, total_score, content>> /\ ~panicked') ]_vars

\* C2: handling Message::Next while the session is WaitUserAnswer leaves
\* cursor, state, running total and last_score unchanged.
C2_AdvanceWhileAwaitingIsNoOp ==
  [][ (Handled("Next") /\ state = WaitUserAnswer)
        => UNCHANGED <<current, state, total_score, last_score>> ]_vars

\* C3: under submit, advance, Enter and text-changed messages the state only
\* ever changes WaitUserAnswer -> Correcting, Correcting -> WaitUserAnswer or
\* Correcting -> End, and never leaves End.
C3_StateSequence ==
  [][ ((Handled("Correction") \/ Handled("Next") \/ Handled("Enter")
          \/ Handled("TextInputChanged")) /\ state' # state)
        => \/ state = WaitUserAnswer /\ state' = Correcting
           \/ state = Correcting /\ state' \in {WaitUserAnswer, End} ]_vars

\* C4: a FileOpened carrying IoError or ParseError records that error and
\* leaves deck, labels, cursor, answer buffer, last_score, running total,
\* state and stored path unchanged, whatever the state it arrives in.
C4_FailedLoadOnlyRecordsError ==
  [][ (Handled("FileOpened") /\ last'.arg \in {IoError, ParseError})
        => /\ error' = Some(last'.arg)
           /\ UNCHANGED <<content, langs, current, entry, last_score, total_score,
                          state, file, panicked>> ]_vars

C4_Witness ==
  /\ last = Msg("FileOpened", ParseError)
  /\ error = Some(ParseError)
  /\ state = Correcting
  /\ file # None

\* C5: a FileOpened carrying DialogClosed changes nothing: the Error field
\* keeps its value, set or unset, and deck, labels, cursor, totals and state
\* are unchanged.
C5_DialogClosedChangesNothing ==
  [][ (Handled("FileOpened") /\ last'.arg = DialogClosed)
        => UNCHANGED <<error, content, langs, current, entry, last_score, total_score,
                       state, file, panicked>> ]_vars

C5_Witness ==
  /\ last = Msg("FileOpened", DialogClosed)
  /\ error = Some(IoError)
  /\ state = End

\* C6: right after a successful load the deck is a permutation of the loaded
\* entries, the labels are the loaded labels, cursor = 0, running total =
\* (0, size of the loaded deck), last_score = 0, the answer buffer is empty,
\* state = WaitUserAnswer and no error is recorded.
C6_LoadIsRestartWithNewDeck ==
  last = Msg("FileOpened", "Ok") =>
    /\ IsPerm(content, loaded.entries)
    /\ langs = loaded.langs
    /\ current = Some(0)
    /\ total_score = <<0, Len(loaded.entries)>>
    /\ last_score = 0
    /\ entry = <<>>
    /\ state = WaitUserAnswer
    /\ error = None

C6_Witness ==
  /\ last = Msg("FileOpened", "Ok")
  /\ Len(content) = 2
  /\ content # loaded.entries
  /\ langs # default_langs

\* C7: Message::Start is handled in every state and always ends with
\* cursor = 0, running total = (0, deck size), last_score = 0 and
\* state = WaitUserAnswer, over a permutation of the deck held before if a
\* load ever succeeded and of the built-in deck otherwise; labels and the
\* Error field are not changed.
C7_Restart ==
  /\ [](~panicked => ENABLED Start)
  /\ [][ Handled("Start")
           => /\ current' = Some(0)
              /\ total_score' = <<0, Len(content')>>
              /\ last_score' = 0
              /\ state' = WaitUserAnswer
              /\ IsPerm(content', IF loads THEN content ELSE default_content)
              /\ langs' = langs
              /\ error' = error
              /\ ~panicked' ]_vars

C7_Witness ==
  /\ last = Msg("Start", End)
  /\ file # None
  /\ error # None
  /\ Len(content) = 2

\* C8: once a deck D has been loaded, through any number of restarts the
\* active deck is a permutation of D, and every ordering of D is a possible
\* outcome of the next restart.
C8_ShufflePreservesEntries ==
  loads =>
    /\ IsPerm(content, loaded.entries)
    /\ ~panicked => \A p \in Orderings(loaded.entries) : ENABLED (Start /\ content' = p)

C8_Witness ==
  /\ loads
  /\ last.kind = "Start"
  /\ Len(content) = 2
  /\ content[1] # content[2]
  /\ content # loaded.entries

\* C9: the running sum equals the sum of the last_score values of the
\* submissions graded since the last (re)initialization, and a step changes it
\* only by grading a submission or by resetting it to 0 on (re)initialization.
C9_RunningTotalIsSumOfScores ==
  /\ [](total_score[1] = score_sum)
  /\ [][ total_score'[1] # total_score[1]
           => \/ (Handled("Correction") \/ Handled("Enter")) /\ submitted' = submitted + 1
              \/ Reinitialized /\ total_score'[1] = 0 ]_vars

C9_Witness ==
  /\ submitted = 2
  /\ last_score = PartialScore
  /\ total_score[1] = FullScore + PartialScore

\* C10: total_score.1 equals the number of entries of the active deck.
C10_CountIsDeckSize ==
  total_score[2] = Len(content)

C10_Witness ==
  /\ loads
  /\ Len(content) = 1
  /\ submitted = 2
  /\ last.kind = "FileOpened"
  /\ error # None

\* C11: the cursor is None exactly when the state is End.
C11_CursorNoneIffEnd ==
  (current = None) <=> (state = End)

C11_Witness ==
  /\ state = End
  /\ current = None
  /\ last = Msg("Next", Correcting)
  /\ submitted = Len(content)

\* C12: handling a submit in WaitUserAnswer grades the entry at the cursor
\* on the trimmed answer buffer, adds the grade to the running sum, stores it
\* as last_score and moves to Correcting, leaving cursor, deck, answer buffer
\* and total_score.1 unchanged.
C12_SubmitGradesCurrentEntry ==
  [][ (Handled("Correction") /\ state = WaitUserAnswer)
        => /\ ~panicked'
           /\ current # None
           /\ current[1] < Len(content)
           /\ last_score' = Grade(content[current[1] + 1], trim(entry), 0, langs[1])
           /\ total_score'[1] = total_score[1] + last_score'
           /\ state' = Correcting
           /\ UNCHANGED <<current, content, entry>>
           /\ total_score'[2] = total_score[2] ]_vars

\* C13: handling an advance in Correcting moves the cursor on by exactly one,
\* enters WaitUserAnswer and clears the answer buffer when the cursor is not
\* at the last index, and sets the cursor to None and enters End when it is;
\* last_score, the running total and the deck are unchanged in both cases.
C13_AdvanceInCorrecting ==
  [][ (Handled("Next") /\ state = Correcting)
        => /\ current # None
           /\ current[1] < Len(content)
           /\ IF current[1] + 1 # Len(content)
              THEN /\ current' = Some(current[1] + 1)
                   /\ state' = WaitUserAnswer
                   /\ entry' = <<>>
              ELSE /\ current' = None
                   /\ state' = End
           /\ UNCHANGED <<last_score, total_score, content, panicked>> ]_vars

C13_Witness ==
  /\ last = Msg("Next", Correcting)
  /\ state = WaitUserAnswer
  /\ current = Some(1)
  /\ last_score = FullScore
  /\ entry = <<>>

\* C14: when submit and advance alternate, the cursor visits 0, 1, ..., N-1
\* in order over a deck of N entries, one position per graded submission,
\* the session is in End once all N are graded and advanced, and it stays in
\* End until a restart or a successful load.
C14_DeckExhaustion ==
  /\ []( /\ state = WaitUserAnswer => (current = Some(submitted) /\ submitted < Len(content))
         /\ state = Correcting => (current = Some(submitted - 1) /\ submitted <= Len(content))
         /\ state = End => submitted = Len(content) )
  /\ [][ state = End => (state' = End \/ Reinitialized) ]_vars

\* C16: whenever the cursor is Some(i), i is an index of the active deck.
C16_CursorInBounds ==
  current # None => current[1] < Len(content)

\* C17: the widgets emit Correction only in WaitUserAnswer, Next only in
\* Correcting and Start only in End; with those messages handled in the state
\* that emitted them, correct() never runs with the cursor None, and the
\* number of graded submissions follows the cursor, so no entry is graded
\* twice or skipped.
C17_ViewRespectingMessages ==
  /\ [][ /\ Handled("Correction") => state = WaitUserAnswer
         /\ Handled("Next") => state = Correcting
         /\ Handled("Start") => state = End ]_vars
  /\ [][ (Handled("Correction") \/ (Handled("Enter") /\ state = WaitUserAnswer))
           => current # None ]_vars
  /\ []( /\ state = WaitUserAnswer => current = Some(submitted)
         /\ state = Correcting => current = Some(submitted - 1)
         /\ state = End => submitted = Len(content) )

C17_Witness ==
  /\ last = Msg("Correction", WaitUserAnswer)
  /\ state = Correcting
  /\ current = Some(1)
  /\ submitted = 2

\* C15: an OpenFile starts one load and changes nothing of the session; each
\* FileOpened completes one load that was started, carrying a deck,
\* DialogClosed, IoError or ParseError; loads in flight change in no other
\* way, so with none in flight no FileOpened arrives, and one in flight can
\* complete in any state of the session.
C15_OneCompletionPerRequest ==
  /\ [][ Handled("OpenFile")
           => /\ pending' = pending + 1
              /\ UNCHANGED <<session, error, file, langs, panicked>> ]_vars
  /\ [][ Handled("FileOpened")
           => /\ pending > 0
              /\ pending' = pending - 1
              /\ last'.arg \in {"Ok"} \cup Error ]_vars
  /\ [][ pending' # pending => (Handled("OpenFile") \/ Handled("FileOpened")) ]_vars
  /\ [](pending = 0 => /\ ~ENABLED (\E err \in Error : FileOpenedErr(err))
                       /\ ~ENABLED (\E f \in Files : FileOpenedOk(f)))
  /\ []((pending > 0 /\ ~panicked) => ENABLED (\E err \in Error : FileOpenedErr(err)))

C15_Witness ==
  /\ last = Msg("FileOpened", IoError)
  /\ pending = 0
  /\ error = Some(IoError)
  /\ state = Correcting

\* C18: a step that handles Enter is a step of correct() in WaitUserAnswer,
\* a step of next() in Correcting, and changes nothing in End.
C18_EnterDispatch ==
  [][ Handled("Enter")
        => /\ UNCHANGED <<error, file, langs, pending>>
           /\ \/ state = WaitUserAnswer /\ correct
              \/ state = Correcting /\ next
              \/ state = End /\ UNCHANGED <<session, panicked>> ]_vars

C18_Witness ==
  /\ last = Msg("Enter", End)
  /\ state = End
  /\ current = None
  /\ submitted = Len(content)

\* C19: the path is stored exactly when a load has succeeded, and the active
\* deck is a permutation of the built-in deck while no load has succeeded and
\* of the deck of the latest successful load afterwards.
C19_ActiveDeckSource ==
  /\ (file # None) <=> loads
  /\ ~loads => IsPerm(content, default_content)
  /\ loads => IsPerm(content, loaded.entries)

C19_Witness ==
  /\ loads
  /\ file # None
  /\ last = Msg("FileOpened", IoError)
  /\ submitted > 0
  /\ Len(content) = 2

====
